---- MODULE Spec2Model ----
(***************************************************************************)
(* Signature descrambling engine of src/app.py: get_decipher_logic (fetch, *)
(* structural extraction, classification, process-wide cache) and          *)
(* decipher_signature (replay of the cached operations on a signature).    *)
(*                                                                         *)
(* Text is modelled as a sequence of lexical tokens (identifiers,          *)
(* punctuation, digits and the whitespace characters " ", "\n", "\t");     *)
(* a regular expression of the source is matched token by token.           *)
(***************************************************************************)
EXTENDS Integers, Sequences, FiniteSets, TLC

\* ------------------------------------------------------------------------
\* Bounds of the model
\* ------------------------------------------------------------------------
MaxLen == 3          \* longest generated character array / signature
MaxParam == 4        \* largest integer literal of a call statement
MaxWs == 1           \* whitespace characters inserted into a helper body
MaxCalls == 2        \* call statements in a generated main function
NumThreads == 2      \* concurrently running requests
MaxRequests == 2     \* requests started in one run

\* ------------------------------------------------------------------------
\* Text primitives
\* ------------------------------------------------------------------------
Whitespace == {" ", "\n", "\t"}

DecimalDigits == <<"0", "1", "2", "3", "4", "5", "6", "7", "8", "9">>

\* int(text) of a one-digit literal
IntOf(tok) == CHOOSE n \in 0..9 : DecimalDigits[n + 1] = tok

IsDigits(tok) == \E n \in 0..9 : DecimalDigits[n + 1] = tok

MemberNames == {"m1", "m2"}
HostNames == {"Xy", "Zq"}

\* tokens matched by [a-zA-Z0-9$]+
IsIdent(tok) ==
    \/ tok \in MemberNames \cup HostNames
    \/ tok \in {"function", "var", "a", "b", "c", "splice", "reverse",
                "length", "return", "split", "join", "dec"}
    \/ IsDigits(tok)

\* str.replace(old, '')
Replace(text, old) == SelectSeq(text, LAMBDA tok : tok # old)

\* str.strip()
RECURSIVE LStrip(_)
LStrip(text) ==
    IF text # <<>> /\ Head(text) \in Whitespace THEN LStrip(Tail(text))
    ELSE text

RECURSIVE RStrip(_)
RStrip(text) ==
    IF text # <<>> /\ text[Len(text)] \in Whitespace
    THEN RStrip(SubSeq(text, 1, Len(text) - 1))
    ELSE text

Strip(text) == LStrip(RStrip(text))

\* str.split(sep): the pieces between separators, the empty ones included
RECURSIVE SplitAcc(_, _, _)
SplitAcc(text, sep, cur) ==
    IF text = <<>> THEN <<cur>>
    ELSE IF Head(text) = sep THEN <<cur>> \o SplitAcc(Tail(text), sep, <<>>)
    ELSE SplitAcc(Tail(text), sep, Append(cur, Head(text)))

Split(text, sep) == SplitAcc(text, sep, <<>>)

\* "".join(list of one-character strings)
RECURSIVE Join(_)
Join(arr) == IF arr = <<>> THEN "" ELSE Head(arr) \o Join(Tail(arr))

\* ------------------------------------------------------------------------
\* Regular expressions over token sequences.  A pattern is a sequence of
\* elements: a literal token, or one of the classes below.
\*   "\\s*" "\\s+"        runs of whitespace characters
\*   "\\d+"               a digit run
\*   "[a-zA-Z0-9$]+"      an identifier ("\\w+" is treated alike)
\* MatchEnds is the set of positions just after a match of pat[j..] that
\* starts at text[i].
\* ------------------------------------------------------------------------
RECURSIVE MatchEnds(_, _, _, _)
MatchEnds(text, i, pat, j) ==
    IF j > Len(pat) THEN {i}
    ELSE IF pat[j] = "\\s*"
    THEN MatchEnds(text, i, pat, j + 1) \cup
         (IF i <= Len(text) /\ text[i] \in Whitespace
          THEN MatchEnds(text, i + 1, pat, j) ELSE {})
    ELSE IF pat[j] = "\\s+"
    THEN IF i <= Len(text) /\ text[i] \in Whitespace
         THEN MatchEnds(text, i + 1, pat, j) \cup
              MatchEnds(text, i + 1, pat, j + 1)
         ELSE {}
    ELSE IF pat[j] = "\\d+"
    THEN IF i <= Len(text) /\ IsDigits(text[i])
         THEN MatchEnds(text, i + 1, pat, j + 1) ELSE {}
    ELSE IF pat[j] \in {"[a-zA-Z0-9$]+", "\\w+"}
    THEN IF i <= Len(text) /\ IsIdent(text[i])
         THEN MatchEnds(text, i + 1, pat, j + 1) ELSE {}
    ELSE IF i <= Len(text) /\ text[i] = pat[j]
         THEN MatchEnds(text, i + 1, pat, j + 1) ELSE {}

\* positions at which re.search(pat, text) can start a match
MatchStarts(pat, text) ==
    {i \in 1..Len(text) : MatchEnds(text, i, pat, 1) # {}}

Min(S) == CHOOSE x \in S : \A y \in S : x <= y
Max(S) == CHOOSE x \in S : \A y \in S : x >= y

\* dict[key] = val
DictSet(d, key, val) ==
    [x \in DOMAIN d \cup {key} |-> IF x = key THEN val ELSE d[x]]

EmptyDict == <<>>

\* ------------------------------------------------------------------------
\* The three array transformations (results carry the exception raised)
\* ------------------------------------------------------------------------
Returned(arr) == [exc |-> "none", arr |-> arr]
Raised(e, arr) == [exc |-> e, arr |-> arr]

\* del arr[index:] in place of del arr[:index]
func_splice_keeps_prefix(arr, index) == Returned(SubSeq(arr, 1, index))

\* del arr[:index]
func_splice(arr, index) == Returned(SubSeq(arr, index + 1, Len(arr)))

\* arr.reverse()
func_reverse(arr, index) ==
    Returned([i \in 1..Len(arr) |-> arr[Len(arr) + 1 - i]])

\* the exchange without the temporary: arr[0] = arr[index]; arr[index] = arr[0]
func_swap_no_temp(arr, index) ==
    IF Len(arr) = 0 THEN Raised("ZeroDivisionError", arr)
    ELSE LET k == (index % Len(arr)) + 1
             arr1 == [arr EXCEPT ![1] = arr[k]]
         IN  Returned([arr1 EXCEPT ![k] = arr1[1]])

\* index = index % len(arr); exchange arr[0] and arr[index]
func_swap(arr, index) ==
    IF Len(arr) = 0 THEN Raised("ZeroDivisionError", arr)
    ELSE LET k == (index % Len(arr)) + 1
             temp == arr[1]
             arr1 == [arr EXCEPT ![1] = arr[k]]
         IN  Returned([arr1 EXCEPT ![k] = temp])

\* decipher_funcs[func_name](signature_array, param)
CallFunc(func, arr, param) ==
    CASE func = "func_splice" -> func_splice(arr, param)
      [] func = "func_reverse" -> func_reverse(arr, param)
      [] func = "func_swap" -> func_swap(arr, param)

\* ------------------------------------------------------------------------
\* get_decipher_logic: structural extraction from the script text js_code
\* ------------------------------------------------------------------------

\* r'var\s+([a-zA-Z0-9$]+)=\s*\{([\s\S]+?)\};' up to the opening brace
HelperHead == <<"var", "\\s+", "[a-zA-Z0-9$]+", "=", "\\s*", "{">>

\* end of the lazy group ([\s\S]+?): the first "};" that leaves the group
\* non-empty
HelperCloses(js_code, h) ==
    {k \in (h + 1)..(Len(js_code) - 1) :
        js_code[k] = "}" /\ js_code[k + 1] = ";"}

\* start positions of a match of the helper object pattern
HelperStarts(js_code) ==
    {i \in 1..Len(js_code) :
        \E h \in MatchEnds(js_code, i, HelperHead, 1) :
            HelperCloses(js_code, h) # {}}

\* helper_obj_match = re.search(...): FALSE stands for no match
helper_obj_match(js_code) ==
    IF HelperStarts(js_code) = {} THEN [found |-> FALSE]
    ELSE LET i == Min(HelperStarts(js_code))
             h == Max(MatchEnds(js_code, i, HelperHead, 1))
             n == Min({x \in (i + 1)..Len(js_code) :
                          js_code[x] \notin Whitespace})
             k == Min(HelperCloses(js_code, h))
         IN  [found |-> TRUE,
              group1 |-> js_code[n],
              group2 |-> SubSeq(js_code, h, k - 1)]

\* r'\w+\s*=\s*function\s*\(\s*a\s*\)\s*{\s*a\s*=\s*a\.split\(""\)\s*;\s*'
MainHead ==
    <<"\\w+", "\\s*", "=", "\\s*", "function", "\\s*", "(", "\\s*", "a",
      "\\s*", ")", "\\s*", "{", "\\s*", "a", "\\s*", "=", "\\s*", "a", ".",
      "split", "(", "\"\"", ")", "\\s*", ";", "\\s*">>

\* one repetition of (?:[a-zA-Z0-9$]+\.[a-zA-Z0-9$]+\(a,\s*\d+\)\s*;)
MainCall ==
    <<"[a-zA-Z0-9$]+", ".", "[a-zA-Z0-9$]+", "(", "a", ",", "\\s*", "\\d+",
      ")", "\\s*", ";">>

\* r'\s*return\s*a\.join\(""\)\s*}'
MainTail ==
    <<"\\s*", "return", "\\s*", "a", ".", "join", "(", "\"\"", ")", "\\s*",
      "}">>

\* ends of one or more repetitions of MainCall starting at position i
RECURSIVE MainCallEnds(_, _)
MainCallEnds(js_code, i) ==
    LET once == MatchEnds(js_code, i, MainCall, 1)
    IN  once \cup UNION {MainCallEnds(js_code, e) : e \in once}

\* <<start, end>> of group 1 for the matches of the whole pattern at i
MainGroups(js_code, i) ==
    UNION {{<<h, g>> : g \in {e \in MainCallEnds(js_code, h) :
                                  MatchEnds(js_code, e, MainTail, 1) # {}}} :
           h \in MatchEnds(js_code, i, MainHead, 1)}

MainStarts(js_code) ==
    {i \in 1..Len(js_code) : MainGroups(js_code, i) # {}}

\* main_func_match = re.search(...)
main_func_match(js_code) ==
    IF MainStarts(js_code) = {} THEN [found |-> FALSE]
    ELSE LET i == Min(MainStarts(js_code))
             hg == CHOOSE p \in MainGroups(js_code, i) :
                       \A q \in MainGroups(js_code, i) : q[2] <= p[2]
         IN  [found |-> TRUE,
              group1 |-> SubSeq(js_code, hg[1], hg[2] - 1)]

\* patterns: key, regular expression and Python function, in dict order
patterns ==
    << [key |-> "splice", func |-> "func_splice",
        pattern |-> <<"[a-zA-Z0-9$]+", ":", "\\s*", "function", "(", "a",
                      ",", "b", ")", "{", "a", ".", "splice", "(", "0", ",",
                      "b", ")", "}">>],
       [key |-> "reverse", func |-> "func_reverse",
        pattern |-> <<"[a-zA-Z0-9$]+", ":", "\\s*", "function", "(", "a",
                      ")", "{", "a", ".", "reverse", "(", ")", "}">>],
       [key |-> "swap", func |-> "func_swap",
        pattern |-> <<"[a-zA-Z0-9$]+", ":", "\\s*", "function", "(", "a",
                      ",", "b", ")", "{", "var", " ", "c", "=", "a", "[",
                      "0", "]", ";", "a", "[", "0", "]", "=", "a", "[", "b",
                      "%", "a", ".", "length", "]", ";", "a", "[", "b", "%",
                      "a", ".", "length", "]", "=", "c", "}">>] >>

\* helper_funcs_str.replace('\n', '').replace(' ', '')
Normalize(helper_funcs_str) == Replace(Replace(helper_funcs_str, "\n"), " ")

\* f"{helper_obj_name}.{member}"
QualifiedName(helper_obj_name, member) == helper_obj_name \o "." \o member

\* for key, (pattern, func) in patterns.items(): ... from the k-th pattern on
RECURSIVE ClassifyFrom(_, _, _, _)
ClassifyFrom(k, helper_obj_name, helper_funcs_str, decipher_funcs) ==
    IF k > Len(patterns) THEN decipher_funcs
    ELSE LET text == Normalize(helper_funcs_str)
             starts == MatchStarts(patterns[k].pattern, text)
         IN  IF starts = {}
             THEN ClassifyFrom(k + 1, helper_obj_name, helper_funcs_str,
                               decipher_funcs)
             ELSE ClassifyFrom(k + 1, helper_obj_name, helper_funcs_str,
                     DictSet(decipher_funcs,
                             QualifiedName(helper_obj_name, text[Min(starts)]),
                             patterns[k].func))

\* the operation table built from the helper object
Classify(helper_obj_name, helper_funcs_str) ==
    ClassifyFrom(1, helper_obj_name, helper_funcs_str, EmptyDict)

\* [op.strip() for op in operations if op.strip()]
StripNonEmpty(operations) ==
    LET stripped == [i \in 1..Len(operations) |-> Strip(operations[i])]
    IN  SelectSeq(stripped, LAMBDA op : op # <<>>)

\* main_func_match.group(1).split(';')
SplitOperations(group1) == Split(group1, ";")

\* ------------------------------------------------------------------------
\* Script texts (the input of the extraction)
\* ------------------------------------------------------------------------
BodyDrop == <<"a", ".", "splice", "(", "0", ",", "b", ")">>
BodyReverse == <<"a", ".", "reverse", "(", ")">>
BodySwap ==
    <<"var", " ", "c", "=", "a", "[", "0", "]", ";", "a", "[", "0", "]", "=",
      "a", "[", "b", "%", "a", ".", "length", "]", ";", "a", "[", "b", "%",
      "a", ".", "length", "]", "=", "c">>
BodyOther ==
    <<"a", ".", "splice", "(", "0", ",", "b", ")", ";", "a", ".", "reverse",
      "(", ")">>

ParamsA == <<"a">>
ParamsAB == <<"a", ",", "b">>

InsertAt(text, p, tok) ==
    SubSeq(text, 1, p) \o <<tok>> \o SubSeq(text, p + 1, Len(text))

\* the texts obtained from body by inserting at most k whitespace characters
RECURSIVE WsVariants(_, _)
WsVariants(body, k) ==
    IF k = 0 THEN {body}
    ELSE LET prev == WsVariants(body, k - 1)
         IN  prev \cup UNION {{InsertAt(b, p, w) :
                                  p \in 0..Len(b), w \in Whitespace} :
                               b \in prev}

\* name:function(params){body}
MemberText(m) ==
    <<m.name, ":", "function", "(">> \o m.params \o <<")", "{">> \o m.body
        \o <<"}">>

RECURSIVE MembersText(_)
MembersText(members) ==
    IF members = <<>> THEN <<>>
    ELSE IF Len(members) = 1 THEN MemberText(members[1])
    ELSE MemberText(members[1]) \o <<",">> \o MembersText(Tail(members))

\* var name={members};
HelperObjectText(name, members) ==
    <<"var", " ", name, "=", "{">> \o MembersText(members) \o <<"}", ";">>

\* host.member(a) or host.member(a,arg) followed by ";"
CallText(c) ==
    <<c.host, ".", c.member, "(", "a">>
        \o (IF c.arg = <<>> THEN <<>> ELSE <<",">> \o c.arg)
        \o <<")">> \o c.tail \o <<";">>

RECURSIVE CallsText(_)
CallsText(calls) ==
    IF calls = <<>> THEN <<>>
    ELSE CallText(calls[1]) \o CallsText(Tail(calls))

\* dec=function(a){a=a.split("");calls return a.join("")}
MainFunctionText(calls) ==
    <<"dec", "=", "function", "(", "a", ")", "{", "a", "=", "a", ".",
      "split", "(", "\"\"", ")", ";">> \o CallsText(calls)
        \o <<"return", " ", "a", ".", "join", "(", "\"\"", ")", "}">>

\* response.text of a script description d
ScriptText(d) ==
    (IF d.hasHelper THEN HelperObjectText(d.helperName, d.members) ELSE <<>>)
        \o (IF d.hasMain THEN MainFunctionText(d.calls) ELSE <<>>)

\* ------------------------------------------------------------------------
\* Inputs: script descriptions, signatures
\* ------------------------------------------------------------------------
URLs == {"U1", "U2"}
Threads == 1..NumThreads

Member(name, params, body) == [name |-> name, params |-> params, body |-> body]
Call(host, member, arg, tail) ==
    [host |-> host, member |-> member, arg |-> arg, tail |-> tail]
Script(hasHelper, members, hasMain, calls) ==
    [hasHelper |-> hasHelper, helperName |-> "Xy", members |-> members,
     hasMain |-> hasMain, calls |-> calls]

DropReverse ==
    <<Member("m1", ParamsAB, BodyDrop), Member("m2", ParamsA, BodyReverse)>>

\* helper {m1: drop, m2: reverse}; main: reverse, then drop one
ScriptReverseDrop ==
    Script(TRUE, DropReverse, TRUE,
           <<Call("Xy", "m2", <<"1">>, <<>>), Call("Xy", "m1", <<"1">>, <<>>)>>)

\* helper {m1: reverse}; main: drop two through an unknown member, reverse
ScriptReverseOnly ==
    Script(TRUE, <<Member("m1", ParamsA, BodyReverse)>>, TRUE,
           <<Call("Xy", "m2", <<"2">>, <<>>), Call("Xy", "m1", <<"0">>, <<>>)>>)

\* helper {m1: swap}; main: swap with 2
ScriptSwapOnly ==
    Script(TRUE, <<Member("m1", ParamsAB, BodySwap)>>, TRUE,
           <<Call("Xy", "m1", <<"2">>, <<>>)>>)

ScriptNoHelper == Script(FALSE, <<>>, TRUE, ScriptReverseDrop.calls)
ScriptNoMain == Script(TRUE, DropReverse, FALSE, <<>>)

SmallScripts ==
    {ScriptReverseDrop, ScriptReverseOnly, ScriptSwapOnly, ScriptNoHelper}

\* scripts served to concurrently running requests
ConcurrentScripts == {ScriptReverseDrop, ScriptReverseOnly}

\* one helper member with a reference body or another body, in every
\* whitespace variant, under the reference parameter list or the other one
RichMembers ==
    {Member("m1", ParamsAB, b) : b \in WsVariants(BodyDrop, MaxWs)}
    \cup {Member("m1", ParamsA, b) : b \in WsVariants(BodyReverse, MaxWs)}
    \cup {Member("m1", ParamsAB, b) : b \in WsVariants(BodySwap, MaxWs)}
    \cup {Member("m1", ParamsAB, BodyOther), Member("m1", ParamsAB, <<>>),
          Member("m1", ParamsAB, BodyReverse), Member("m1", ParamsA, BodyDrop)}

SecondMembers ==
    {<<>>, <<Member("m2", ParamsA, BodyReverse)>>,
     <<Member("m2", ParamsAB, BodyDrop)>>}

\* the first member in its reference form, or with another body
PlainMembers ==
    {Member("m1", ParamsAB, BodyDrop), Member("m1", ParamsA, BodyReverse),
     Member("m1", ParamsAB, BodySwap), Member("m1", ParamsAB, BodyOther)}

RichHelperScripts ==
    {Script(TRUE, <<m>>, TRUE, <<Call("Xy", "m1", <<"1">>, <<>>)>>) :
        m \in RichMembers}
    \cup
    {Script(TRUE, <<m>> \o rest, TRUE, <<Call("Xy", "m1", <<"1">>, <<>>)>>) :
        m \in PlainMembers, rest \in SecondMembers}

\* call statements of a generated main function
CallChoices ==
    {Call("Xy", m, <<DecimalDigits[n + 1]>>, <<>>) :
        m \in MemberNames, n \in {0, 1, MaxParam}}
    \cup {Call("Xy", "m2", <<>>, <<>>), Call("Zq", "m1", <<"1">>, <<>>),
          Call("Xy", "m1", <<" ", "1">>, <<" ">>)}

RECURSIVE CallLists(_)
CallLists(n) ==
    IF n = 0 THEN {<<>>}
    ELSE LET prev == CallLists(n - 1)
         IN  prev \cup {Append(cs, c) : cs \in prev, c \in CallChoices}

RichMainScripts ==
    {Script(TRUE, DropReverse, TRUE, cs) : cs \in CallLists(MaxCalls)}

Alphabet == <<"a", "b", "c", "d", "e", "f", "g">>

\* signatures as character arrays
SignatureArrays ==
    {SubSeq(Alphabet, 1, n) : n \in 0..MaxLen} \cup {<<"4", "3", "2", "1">>}

Signatures == {Join(arr) : arr \in SignatureArrays}

\* list(s_cipher)
ListOf(s_cipher) == CHOOSE arr \in SignatureArrays : Join(arr) = s_cipher

\* character arrays for the array transformations
RECURSIVE ArraysUpTo(_)
ArraysUpTo(n) ==
    IF n = 0 THEN {<<>>}
    ELSE LET prev == ArraysUpTo(n - 1)
         IN  prev \cup {Append(arr, ch) : arr \in prev, ch \in {"a", "b", "c"}}

Arrays == ArraysUpTo(MaxLen) \cup {SubSeq(Alphabet, 1, 6)} \cup SignatureArrays

\* ------------------------------------------------------------------------
\* State
\* ------------------------------------------------------------------------
VARIABLES
    scripts,          \* script source provider: URL -> script description
    offered,          \* signatures that requests of this run may carry
    decipher_cache,   \* _decipher_cache
    fetches,          \* number of requests.get(js_url) calls made
    started,          \* number of decipher_signature calls started
    last_logic,       \* how the latest get_decipher_logic call ended
    pc,               \* position of each request thread
    s_cipher,         \* argument of decipher_signature, per thread
    js_url,           \* argument of decipher_signature, per thread
    local,            \* local variables of the running call, per thread
    result,           \* what decipher_signature handed to its caller
    used,             \* how the call got its program, and the program it read
    call,             \* one call of an array transformation
    stream            \* the format a /get_video request is working on

vars ==
    <<scripts, offered, decipher_cache, fetches, started, last_logic, pc,
      s_cipher, js_url, local, result, used, call, stream>>

\* an empty dict standing where None is returned
NoneValue_empty_dict == [none |-> FALSE, val |-> EmptyDict]

\* a value that is None or a dict
NoneValue == [none |-> TRUE, val |-> EmptyDict]
Some(d) == [none |-> FALSE, val |-> d]

\* the test "is not None" in place of the truth value
Truthy_is_not_none(v) == ~v.none

\* truth value of None / of a dict
Truthy(v) == ~v.none /\ DOMAIN v.val # {}

InitLocal ==
    [js_code |-> <<>>, decipher_funcs |-> EmptyDict, operations |-> <<>>,
     logic |-> NoneValue, funcs |-> EmptyDict, ops |-> <<>>,
     signature_array |-> <<>>, i |-> 1, op_count |-> 0, fetched |-> 0]

NotUsed ==
    [how |-> "none", logic |-> NoneValue, loaded |-> FALSE,
     funcs |-> EmptyDict, ops |-> <<>>]

Pending == [kind |-> "pending", val |-> ""]
ReturnNone == [kind |-> "None", val |-> ""]
ReturnStr(s) == [kind |-> "str", val |-> s]
Raise(e) == [kind |-> e, val |-> ""]

NoCall == [fn |-> "none", arr |-> <<>>, index |-> 0, out |-> Returned(<<>>)]

\* a value that is None or a string
NoneStr == [none |-> TRUE, val |-> <<>>]
Str(text) == [none |-> FALSE, val |-> text]

\* no format taken up yet
NoStream ==
    [stage |-> "none", format_data |-> <<>>,
     is_ciphered |-> FALSE, is_playable |-> FALSE, url |-> NoneStr,
     s_cipher |-> NoneStr, sp |-> NoneStr, final_playable_url |-> NoneStr]

InitProgram ==
    /\ decipher_cache = EmptyDict
    /\ fetches = 0
    /\ last_logic = "none"
    /\ pc = [t \in Threads |-> "idle"]
    /\ s_cipher = [t \in Threads |-> ""]
    /\ js_url = [t \in Threads |-> "U1"]
    /\ local = [t \in Threads |-> InitLocal]
    /\ result = [t \in Threads |-> Pending]
    /\ used = [t \in Threads |-> NotUsed]
    /\ stream = [t \in Threads |-> NoStream]

\* concurrent requests against any assignment of the small scripts to URLs
Init ==
    /\ InitProgram
    /\ scripts \in [URLs -> ConcurrentScripts]
    /\ offered = {"", "4321"}
    /\ started = 0
    /\ call = NoCall

\* ------------------------------------------------------------------------
\* decipher_signature / get_decipher_logic, one step per shared access
\* ------------------------------------------------------------------------

\* a request calls decipher_signature(s_cipher, js_url)
Start(t) ==
    /\ pc[t] \in {"idle", "done"}
    /\ started < MaxRequests
    /\ \E s \in offered, u \in URLs :
          /\ s_cipher' = [s_cipher EXCEPT ![t] = s]
          /\ js_url' = [js_url EXCEPT ![t] = u]
    /\ started' = started + 1
    /\ pc' = [pc EXCEPT ![t] = "check"]
    /\ local' = [local EXCEPT ![t] = InitLocal]
    /\ result' = [result EXCEPT ![t] = Pending]
    /\ used' = [used EXCEPT ![t] = NotUsed]
    /\ UNCHANGED <<scripts, offered, decipher_cache, fetches, last_logic,
                   call, stream>>

\* the check made against a key that is never stored
CacheHit_wrong_key(cache) == "decipher_logic" \in DOMAIN cache

\* if 'decipher_funcs' in _decipher_cache
CacheHit(cache) == "decipher_funcs" \in DOMAIN cache

\* the cache check without its return: a hit goes on to fetch
Check_hit_still_fetches(t) ==
    /\ pc[t] = "check"
    /\ IF CacheHit(decipher_cache)
       THEN /\ local' = [local EXCEPT
                           ![t].logic = Some(decipher_cache["decipher_funcs"])]
            /\ pc' = [pc EXCEPT ![t] = "fetch"]
            /\ used' = [used EXCEPT
                          ![t].how = "hit",
                          ![t].logic = Some(decipher_cache["decipher_funcs"])]
            /\ last_logic' = "hit"
       ELSE /\ pc' = [pc EXCEPT ![t] = "fetch"]
            /\ UNCHANGED <<local, last_logic, used>>
    /\ UNCHANGED <<scripts, offered, decipher_cache, fetches, started,
                   s_cipher, js_url, result, call, stream>>

\* lines 25-27: cache check; a hit returns the cached table
Check(t) ==
    /\ pc[t] = "check"
    /\ IF CacheHit(decipher_cache)
       THEN /\ local' = [local EXCEPT
                           ![t].logic = Some(decipher_cache["decipher_funcs"])]
            /\ pc' = [pc EXCEPT ![t] = "test"]
            /\ used' = [used EXCEPT
                          ![t].how = "hit",
                          ![t].logic = Some(decipher_cache["decipher_funcs"])]
            /\ last_logic' = "hit"
       ELSE /\ pc' = [pc EXCEPT ![t] = "fetch"]
            /\ UNCHANGED <<local, last_logic, used>>
    /\ UNCHANGED <<scripts, offered, decipher_cache, fetches, started,
                   s_cipher, js_url, result, call, stream>>

\* Fetch with the failure remembered in the cache as an empty table
Fetch_caches_failure(t) ==
    /\ pc[t] = "fetch"
    /\ fetches' = fetches + 1
    /\ \E ok \in BOOLEAN :
          IF ok
          THEN /\ local' = [local EXCEPT
                              ![t].js_code = ScriptText(scripts[js_url[t]]),
                              ![t].fetched = @ + 1]
               /\ pc' = [pc EXCEPT ![t] = "parse"]
               /\ UNCHANGED <<last_logic, used, decipher_cache>>
          ELSE /\ local' = [local EXCEPT ![t].logic = NoneValue,
                                         ![t].fetched = @ + 1]
               /\ pc' = [pc EXCEPT ![t] = "test"]
               /\ used' = [used EXCEPT ![t].how = "SourceUnavailable",
                                     ![t].logic = NoneValue]
               /\ last_logic' = "SourceUnavailable"
               /\ decipher_cache' =
                      DictSet(decipher_cache, "decipher_funcs", EmptyDict)
    /\ UNCHANGED <<scripts, offered, started, s_cipher, js_url, result, call,
                   stream>>

\* lines 30-37: requests.get; any exception returns None
Fetch(t) ==
    /\ pc[t] = "fetch"
    /\ fetches' = fetches + 1
    /\ \E ok \in BOOLEAN :
          IF ok
          THEN /\ local' = [local EXCEPT
                              ![t].js_code = ScriptText(scripts[js_url[t]]),
                              ![t].fetched = @ + 1]
               /\ pc' = [pc EXCEPT ![t] = "parse"]
               /\ UNCHANGED <<last_logic, used>>
          ELSE /\ local' = [local EXCEPT ![t].logic = NoneValue,
                                         ![t].fetched = @ + 1]
               /\ pc' = [pc EXCEPT ![t] = "test"]
               /\ used' = [used EXCEPT ![t].how = "SourceUnavailable",
                                     ![t].logic = NoneValue]
               /\ last_logic' = "SourceUnavailable"
    /\ UNCHANGED <<scripts, offered, decipher_cache, started, s_cipher,
                   js_url, result, call, stream>>

\* lines 40-86: helper object, main function, classification
Parse(t) ==
    /\ pc[t] = "parse"
    /\ LET js_code == local[t].js_code
           helper == helper_obj_match(js_code)
           main == main_func_match(js_code)
       IN  IF ~helper.found
           THEN /\ local' = [local EXCEPT ![t].logic = NoneValue]
                /\ pc' = [pc EXCEPT ![t] = "test"]
                /\ used' = [used EXCEPT ![t].how = "NoHelperObject",
                                      ![t].logic = NoneValue]
                /\ last_logic' = "NoHelperObject"
           ELSE IF ~main.found
           THEN /\ local' = [local EXCEPT ![t].logic = NoneValue]
                /\ pc' = [pc EXCEPT ![t] = "test"]
                /\ used' = [used EXCEPT ![t].how = "NoMainFunction",
                                      ![t].logic = NoneValue]
                /\ last_logic' = "NoMainFunction"
           ELSE /\ local' = [local EXCEPT
                               ![t].operations = SplitOperations(main.group1),
                               ![t].decipher_funcs =
                                   Classify(helper.group1, helper.group2)]
                /\ pc' = [pc EXCEPT ![t] = "store_funcs"]
                /\ UNCHANGED <<last_logic, used>>
    /\ UNCHANGED <<scripts, offered, decipher_cache, fetches, started,
                   s_cipher, js_url, result, call, stream>>

\* line 88: _decipher_cache['decipher_funcs'] = decipher_funcs
StoreFuncs(t) ==
    /\ pc[t] = "store_funcs"
    /\ decipher_cache' =
           DictSet(decipher_cache, "decipher_funcs", local[t].decipher_funcs)
    /\ pc' = [pc EXCEPT ![t] = "store_ops"]
    /\ UNCHANGED <<scripts, offered, fetches, started, last_logic, s_cipher,
                   js_url, local, result, used, call, stream>>

\* line 89: _decipher_cache['operations'] = [op.strip() for op in ...]
StoreOps(t) ==
    /\ pc[t] = "store_ops"
    /\ decipher_cache' =
           DictSet(decipher_cache, "operations",
                   StripNonEmpty(local[t].operations))
    /\ pc' = [pc EXCEPT ![t] = "return"]
    /\ UNCHANGED <<scripts, offered, fetches, started, last_logic, s_cipher,
                   js_url, local, result, used, call, stream>>

\* line 92: return _decipher_cache['decipher_funcs']
Return(t) ==
    /\ pc[t] = "return"
    /\ local' = [local EXCEPT
                   ![t].logic = Some(decipher_cache["decipher_funcs"])]
    /\ used' = [used EXCEPT
                  ![t].how = "built",
                  ![t].logic = Some(decipher_cache["decipher_funcs"])]
    /\ last_logic' = "built"
    /\ pc' = [pc EXCEPT ![t] = "test"]
    /\ UNCHANGED <<scripts, offered, decipher_cache, fetches, started,
                   s_cipher, js_url, result, call, stream>>

\* lines 97-98: if not get_decipher_logic(js_url): return None
Test(t) ==
    /\ pc[t] = "test"
    /\ IF ~Truthy(local[t].logic)
       THEN /\ result' = [result EXCEPT ![t] = ReturnNone]
            /\ pc' = [pc EXCEPT ![t] = "done"]
            /\ local' = [local EXCEPT ![t] = InitLocal]
       ELSE /\ pc' = [pc EXCEPT ![t] = "load_funcs"]
            /\ UNCHANGED <<result, local>>
    /\ UNCHANGED <<scripts, offered, decipher_cache, fetches, started,
                   last_logic, s_cipher, js_url, used, call, stream>>

\* line 100: decipher_funcs = _decipher_cache['decipher_funcs']
LoadFuncs(t) ==
    /\ pc[t] = "load_funcs"
    /\ local' = [local EXCEPT ![t].funcs = decipher_cache["decipher_funcs"]]
    /\ pc' = [pc EXCEPT ![t] = "load_ops"]
    /\ UNCHANGED <<scripts, offered, decipher_cache, fetches, started,
                   last_logic, s_cipher, js_url, result, used, call, stream>>

\* lines 101-104: operations = _decipher_cache['operations'] (KeyError when
\* the key is missing); signature_array = list(s_cipher)
LoadOps(t) ==
    /\ pc[t] = "load_ops"
    /\ IF "operations" \notin DOMAIN decipher_cache
       THEN /\ result' = [result EXCEPT ![t] = Raise("KeyError")]
            /\ pc' = [pc EXCEPT ![t] = "done"]
            /\ local' = [local EXCEPT ![t] = InitLocal]
            /\ UNCHANGED used
       ELSE /\ local' = [local EXCEPT
                           ![t].ops = decipher_cache["operations"],
                           ![t].signature_array = ListOf(s_cipher[t]),
                           ![t].i = 1,
                           ![t].op_count = 0]
            /\ used' = [used EXCEPT ![t].loaded = TRUE,
                                    ![t].funcs = local[t].funcs,
                                    ![t].ops = decipher_cache["operations"]]
            /\ pc' = [pc EXCEPT ![t] = "replay"]
            /\ UNCHANGED result
    /\ UNCHANGED <<scripts, offered, decipher_cache, fetches, started,
                   last_logic, s_cipher, js_url, call, stream>>

\* r'([a-zA-Z0-9$]+\.[a-zA-Z0-9$]+)\(a,\s*(\d+)\)'
OpPattern ==
    <<"[a-zA-Z0-9$]+", ".", "[a-zA-Z0-9$]+", "(", "a", ",", "\\s*", "\\d+",
      ")">>

\* the match with the member identifier alone as group 1
func_call_member_only(op) ==
    LET ends == MatchEnds(op, 1, OpPattern, 1)
    IN  IF ends = {} THEN [found |-> FALSE]
        ELSE [found |-> TRUE,
              group1 |-> op[3],
              group2 |-> op[Max(ends) - 2]]

\* func_call = re.match(..., op)
func_call(op) ==
    LET ends == MatchEnds(op, 1, OpPattern, 1)
    IN  IF ends = {} THEN [found |-> FALSE]
        ELSE [found |-> TRUE,
              group1 |-> Join(SubSeq(op, 1, 3)),
              group2 |-> op[Max(ends) - 2]]

\* lines 107-116: one iteration of the loop over operations
ReplayOp(decipher_funcs, op, signature_array) ==
    LET m == func_call(op)
    IN  IF ~m.found THEN [exc |-> "none", arr |-> signature_array, n |-> 0]
        ELSE LET func_name == m.group1
                 param == IntOf(m.group2)
             IN  IF func_name \in DOMAIN decipher_funcs
                 THEN LET r == CallFunc(decipher_funcs[func_name],
                                        signature_array, param)
                      IN  [exc |-> r.exc, arr |-> r.arr, n |-> 1]
                 ELSE [exc |-> "none", arr |-> signature_array, n |-> 0]

\* the loop body consuming the cached list: operations.pop(0)
ReplayStep_pops_cache(t) ==
    /\ pc[t] = "replay"
    /\ local[t].i <= Len(local[t].ops)
    /\ LET r == ReplayOp(local[t].funcs, local[t].ops[local[t].i],
                         local[t].signature_array)
       IN  IF r.exc # "none"
           THEN /\ result' = [result EXCEPT ![t] = Raise(r.exc)]
                /\ pc' = [pc EXCEPT ![t] = "done"]
                /\ local' = [local EXCEPT ![t] = InitLocal]
           ELSE /\ local' = [local EXCEPT
                               ![t].signature_array = r.arr,
                               ![t].op_count = @ + r.n,
                               ![t].i = @ + 1]
                /\ UNCHANGED <<result, pc>>
    /\ decipher_cache' =
           IF "operations" \in DOMAIN decipher_cache
              /\ decipher_cache["operations"] # <<>>
           THEN DictSet(decipher_cache, "operations",
                        Tail(decipher_cache["operations"]))
           ELSE decipher_cache
    /\ UNCHANGED <<scripts, offered, fetches, started, last_logic, s_cipher,
                   js_url, used, call, stream>>

\* the loop body for the operation at local[t].i
ReplayStep(t) ==
    /\ pc[t] = "replay"
    /\ local[t].i <= Len(local[t].ops)
    /\ LET r == ReplayOp(local[t].funcs, local[t].ops[local[t].i],
                         local[t].signature_array)
       IN  IF r.exc # "none"
           THEN /\ result' = [result EXCEPT ![t] = Raise(r.exc)]
                /\ pc' = [pc EXCEPT ![t] = "done"]
                /\ local' = [local EXCEPT ![t] = InitLocal]
           ELSE /\ local' = [local EXCEPT
                               ![t].signature_array = r.arr,
                               ![t].op_count = @ + r.n,
                               ![t].i = @ + 1]
                /\ UNCHANGED <<result, pc>>
    /\ UNCHANGED <<scripts, offered, decipher_cache, fetches, started,
                   last_logic, s_cipher, js_url, used, call, stream>>

\* lines 118-122: deciphered_sig = "".join(signature_array); return it
Finish(t) ==
    /\ pc[t] = "replay"
    /\ local[t].i > Len(local[t].ops)
    /\ result' = [result EXCEPT
                    ![t] = ReturnStr(Join(local[t].signature_array))]
    /\ pc' = [pc EXCEPT ![t] = "done"]
    /\ local' = [local EXCEPT ![t] = InitLocal]
    /\ UNCHANGED <<scripts, offered, decipher_cache, fetches, started,
                   last_logic, s_cipher, js_url, used, call, stream>>

Next ==
    \E t \in Threads :
        \/ Start(t)
        \/ Check(t)
        \/ Fetch(t)
        \/ Parse(t)
        \/ StoreFuncs(t)
        \/ StoreOps(t)
        \/ Return(t)
        \/ Test(t)
        \/ LoadFuncs(t)
        \/ LoadOps(t)
        \/ ReplayStep(t)
        \/ Finish(t)

\* requests of several threads, interleaved at every shared access
Spec == Init /\ [][Next]_vars

\* ------------------------------------------------------------------------
\* Sequential runs: a request starts only when no other one is running
\* ------------------------------------------------------------------------
Quiet == \A t \in Threads : pc[t] \in {"idle", "done"}

StartSeq(t) == Quiet /\ Start(t)

NextSeq ==
    \E t \in Threads :
        \/ StartSeq(t)
        \/ Check(t)
        \/ Fetch(t)
        \/ Parse(t)
        \/ StoreFuncs(t)
        \/ StoreOps(t)
        \/ Return(t)
        \/ Test(t)
        \/ LoadFuncs(t)
        \/ LoadOps(t)
        \/ ReplayStep(t)
        \/ Finish(t)

InitSeq ==
    /\ InitProgram
    /\ scripts \in [URLs -> SmallScripts \cup {ScriptNoMain}]
    /\ offered = {"", "4321"}
    /\ started = 0
    /\ call = NoCall

SpecSeq == InitSeq /\ [][NextSeq]_vars

\* ------------------------------------------------------------------------
\* One request against every generated script
\* ------------------------------------------------------------------------
LongestSignature == Join(SubSeq(Alphabet, 1, MaxLen))

InitExtract ==
    /\ InitProgram
    /\ started = MaxRequests - 1
    /\ call = NoCall
    /\ \E d \in RichHelperScripts \cup RichMainScripts
                  \cup {ScriptNoHelper, ScriptNoMain} \cup SmallScripts :
          /\ scripts = [u \in URLs |-> d]
          /\ IF d \in RichMainScripts
             THEN \E s \in Signatures : offered = {s}
             ELSE offered = {LongestSignature}

SpecExtract == InitExtract /\ [][NextSeq]_vars

\* ------------------------------------------------------------------------
\* One call of an array transformation on every generated array
\* ------------------------------------------------------------------------
InitOps ==
    /\ InitProgram
    /\ scripts = [u \in URLs |-> ScriptReverseDrop]
    /\ offered = {}
    /\ started = 0
    /\ \E arr \in Arrays, index \in 0..MaxParam :
          call = [fn |-> "none", arr |-> arr, index |-> index,
                  out |-> Returned(<<>>)]

ProgramUnchanged ==
    UNCHANGED <<scripts, offered, decipher_cache, fetches, started,
                last_logic, pc, s_cipher, js_url, local, result, used,
                stream>>

CallSplice ==
    /\ call.fn = "none"
    /\ call' = [call EXCEPT !.fn = "func_splice",
                            !.out = func_splice(call.arr, call.index)]
    /\ ProgramUnchanged

CallReverse ==
    /\ call.fn = "none"
    /\ call' = [call EXCEPT !.fn = "func_reverse",
                            !.out = func_reverse(call.arr, call.index)]
    /\ ProgramUnchanged

CallSwap ==
    /\ call.fn = "none"
    /\ call' = [call EXCEPT !.fn = "func_swap",
                            !.out = func_swap(call.arr, call.index)]
    /\ ProgramUnchanged

NextOps == CallSplice \/ CallReverse \/ CallSwap

SpecOps == InitOps /\ [][NextOps]_vars

\* ------------------------------------------------------------------------
\* /get_video: one format of the response after the other
\* ------------------------------------------------------------------------
PLAYER_JS_URL == "U1"

\* URLs of a format: without and with a "sig" parameter; the percent-encoded
\* base URL carried by a signatureCipher
DirectUrl == <<"https://h/v", "?", "id=1">>
SignedUrl == <<"https://h/v", "?", "id=1", "&", "sig", "=", "AB">>
QuotedBaseUrl == <<"https://h/c", "%3F", "id=2">>

\* "sig" in text
ContainsSig(text) == \E i \in 1..Len(text) : text[i] = "sig"

\* urllib.parse.unquote
Unquote(text) ==
    [i \in 1..Len(text) |-> IF text[i] = "%3F" THEN "?" ELSE text[i]]

\* position of the first "=" of a name=value field, 0 when it has none
FirstEq(field) ==
    IF \E i \in 1..Len(field) : field[i] = "="
    THEN CHOOSE i \in 1..Len(field) :
             field[i] = "=" /\ \A j \in 1..(i - 1) : field[j] # "="
    ELSE 0

\* urllib.parse.parse_qs: the name=value fields in order, fields without
\* "=" or with a blank value left out, names and values unquoted
RECURSIVE ParseFields(_)
ParseFields(fields) ==
    IF fields = <<>> THEN <<>>
    ELSE LET field == Head(fields)
             eq == FirstEq(field)
             rest == ParseFields(Tail(fields))
         IN  IF eq = 0 \/ eq = Len(field) THEN rest
             ELSE <<[name |-> Unquote(SubSeq(field, 1, eq - 1)),
                     value |-> Unquote(SubSeq(field, eq + 1, Len(field)))]>>
                  \o rest

parse_qs(text) == ParseFields(Split(text, "&"))

\* cipher_params.get(key, [default])[0]
cipher_params_get(cipher_params, key, default) ==
    IF \E i \in 1..Len(cipher_params) : cipher_params[i].name = <<key>>
    THEN LET i == CHOOSE i \in 1..Len(cipher_params) :
                      /\ cipher_params[i].name = <<key>>
                      /\ \A j \in 1..(i - 1) : cipher_params[j].name # <<key>>
         IN  Str(cipher_params[i].value)
    ELSE default

\* truth value of None / of a string
TruthyStr(v) == ~v.none /\ v.val # <<>>

\* lines 128-160: the stream entry of a format
extract_stream_info(format_data) ==
    LET url1 == format_data.url
        playable == ~url1.none /\ ContainsSig(url1.val)
        ciphered == ~format_data.signatureCipher.none
        cipher_params == IF ciphered
                         THEN parse_qs(format_data.signatureCipher.val)
                         ELSE <<>>
        base_url == cipher_params_get(cipher_params, "url", NoneStr)
    IN  [stage |-> "extracted", format_data |-> format_data,
         is_ciphered |-> ciphered,
         is_playable |-> playable,
         url |-> IF ciphered /\ TruthyStr(base_url) THEN base_url ELSE url1,
         s_cipher |-> IF ciphered
                      THEN cipher_params_get(cipher_params, "s", NoneStr)
                      ELSE NoneStr,
         sp |-> IF ciphered
                THEN cipher_params_get(cipher_params, "sp", Str(<<"sig">>))
                ELSE NoneStr,
         final_playable_url |-> NoneStr]

\* the name=value fields a signatureCipher may be made of
SFields == {<<>>, <<"s", "=", "4321">>, <<"s", "=", "a">>, <<"s", "=">>}
SpFields == {<<>>, <<"sp", "=", "sig", "nature">>}
UrlFields == {<<>>, <<"url", "=">> \o QuotedBaseUrl}

\* "&".join(fields), the empty fields left out
RECURSIVE JoinAmp(_)
JoinAmp(fields) ==
    IF fields = <<>> THEN <<>>
    ELSE LET rest == JoinAmp(Tail(fields))
         IN  IF Head(fields) = <<>> THEN rest
             ELSE IF rest = <<>> THEN Head(fields)
             ELSE Head(fields) \o <<"&">> \o rest

CipherTexts ==
    {JoinAmp(<<s, sp, u>>) : s \in SFields, sp \in SpFields, u \in UrlFields}

\* the formats of a player response: a key that is absent is None
Formats ==
    [url : {NoneStr, Str(DirectUrl), Str(SignedUrl)},
     signatureCipher : {NoneStr} \cup {Str(c) : c \in CipherTexts}]

DecipheringFailed == <<"Deciphering Failed">>

\* lines 206-207: stream_info = extract_stream_info(fmt), the next format
ExtractStreamInfo(t) ==
    /\ pc[t] \in {"idle", "done"}
    /\ stream[t].stage \in {"none", "appended"}
    /\ \A u \in Threads \ {t} : stream[u].stage = "none"
    /\ started < MaxRequests
    /\ \E fmt \in Formats :
          stream' = [stream EXCEPT ![t] = extract_stream_info(fmt)]
    /\ UNCHANGED <<scripts, offered, decipher_cache, fetches, started,
                   last_logic, pc, s_cipher, js_url, local, result, used,
                   call>>

\* line 210: is_ciphered and s_cipher and url
NeedsDecipher(stream_info) ==
    /\ stream_info.is_ciphered
    /\ TruthyStr(stream_info.s_cipher)
    /\ TruthyStr(stream_info.url)

\* line 214: decipher_signature(stream_info["s_cipher"], PLAYER_JS_URL)
DecipherCall(t) ==
    /\ stream[t].stage = "extracted"
    /\ NeedsDecipher(stream[t])
    /\ s_cipher' = [s_cipher EXCEPT ![t] = Join(stream[t].s_cipher.val)]
    /\ js_url' = [js_url EXCEPT ![t] = PLAYER_JS_URL]
    /\ started' = started + 1
    /\ pc' = [pc EXCEPT ![t] = "check"]
    /\ local' = [local EXCEPT ![t] = InitLocal]
    /\ result' = [result EXCEPT ![t] = Pending]
    /\ used' = [used EXCEPT ![t] = NotUsed]
    /\ stream' = [stream EXCEPT ![t].stage = "deciphering"]
    /\ UNCHANGED <<scripts, offered, decipher_cache, fetches, last_logic,
                   call>>

\* lines 216-223, 231: the result of the call is put in the stream entry
DecipherReturn(t) ==
    /\ stream[t].stage = "deciphering"
    /\ pc[t] = "done"
    /\ LET deciphered_sig == result[t]
       IN  IF deciphered_sig.kind \notin {"str", "None"}
           THEN stream' = [stream EXCEPT ![t].stage = "raised"]
           ELSE IF deciphered_sig.kind = "str" /\ deciphered_sig.val # ""
           THEN stream' =
                    [stream EXCEPT
                       ![t].final_playable_url =
                           Str(stream[t].url.val \o <<"&">>
                               \o stream[t].sp.val
                               \o <<"=", deciphered_sig.val>>),
                       ![t].is_playable = TRUE,
                       ![t].stage = "appended"]
           ELSE stream' =
                    [stream EXCEPT
                       ![t].final_playable_url = Str(DecipheringFailed),
                       ![t].stage = "appended"]
    /\ UNCHANGED <<scripts, offered, decipher_cache, fetches, started,
                   last_logic, pc, s_cipher, js_url, local, result, used,
                   call>>

\* lines 227-231: a format that needs no deciphering
DirectStream(t) ==
    /\ stream[t].stage = "extracted"
    /\ ~NeedsDecipher(stream[t])
    /\ IF TruthyStr(stream[t].url) /\ stream[t].is_playable
       THEN stream' = [stream EXCEPT
                         ![t].final_playable_url = stream[t].url,
                         ![t].stage = "appended"]
       ELSE stream' = [stream EXCEPT ![t].stage = "appended"]
    /\ UNCHANGED <<scripts, offered, decipher_cache, fetches, started,
                   last_logic, pc, s_cipher, js_url, local, result, used,
                   call>>

NextVideo ==
    \E t \in Threads :
        \/ ExtractStreamInfo(t)
        \/ DecipherCall(t)
        \/ Check(t)
        \/ Fetch(t)
        \/ Parse(t)
        \/ StoreFuncs(t)
        \/ StoreOps(t)
        \/ Return(t)
        \/ Test(t)
        \/ LoadFuncs(t)
        \/ LoadOps(t)
        \/ ReplayStep(t)
        \/ Finish(t)
        \/ DecipherReturn(t)
        \/ DirectStream(t)

\* one request thread works through formats; the player script is one of two
InitVideo ==
    /\ InitProgram
    /\ \E d \in {ScriptReverseDrop, ScriptSwapOnly} :
          scripts = [u \in URLs |-> d]
    /\ offered = {"a", "4321"}
    /\ started = 0
    /\ call = NoCall

SpecVideo == InitVideo /\ [][NextVideo]_vars

\* ------------------------------------------------------------------------
\* Properties
\* ------------------------------------------------------------------------
MinOf(a, b) == IF a <= b THEN a ELSE b

\* C8: after func_splice(arr, n) on an array of length L, the result has
\* length L - min(n, L) and its i-th character is the (i + min(n, L))-th
\* character of arr, for n <= L and for n > L alike; nothing is raised.
C8_DropRemovesPrefix ==
    call.fn = "func_splice" =>
        LET L == Len(call.arr)
            k == MinOf(call.index, L)
        IN  /\ call.out.exc = "none"
            /\ Len(call.out.arr) = L - k
            /\ \A i \in 1..(L - k) : call.out.arr[i] = call.arr[i + k]

\* a Drop whose parameter exceeds the length of a non-empty array has run
C8_Witness ==
    /\ call.fn = "func_splice"
    /\ Len(call.arr) >= 1
    /\ call.index > Len(call.arr)

\* C9: after func_swap(arr, n) on an array of length L >= 1 the characters
\* at positions 0 and n mod L are exchanged and every other position is
\* unchanged; with n mod L = 0 the array is unchanged; "abcdef" with n = 2
\* gives "cbadef".
C9_SwapExchanges ==
    (call.fn = "func_swap" /\ Len(call.arr) >= 1) =>
        LET L == Len(call.arr)
            k == call.index % L
        IN  /\ call.out.exc = "none"
            /\ Len(call.out.arr) = L
            /\ call.out.arr[1] = call.arr[k + 1]
            /\ call.out.arr[k + 1] = call.arr[1]
            /\ \A i \in 1..L :
                  i \notin {1, k + 1} => call.out.arr[i] = call.arr[i]
            /\ k = 0 => call.out.arr = call.arr
            /\ (Join(call.arr) = "abcdef" /\ call.index = 2)
                  => Join(call.out.arr) = "cbadef"

\* SwapWithModulo(2) has run on "abcdef"
C9_Witness ==
    /\ call.fn = "func_swap"
    /\ Join(call.arr) = "abcdef"
    /\ call.index = 2
    /\ Join(call.out.arr) = "cbadef"

Failures == {"SourceUnavailable", "NoHelperObject", "NoMainFunction"}
GotLogic == {"hit", "built"}

\* both cache writes of an extraction have been made
Populated == {"decipher_funcs", "operations"} \subseteq DOMAIN decipher_cache

\* C4: in a sequential run the call that builds the cache entry has made
\* exactly one fetch when it returns, and once the entry is stored no step
\* of any later call fetches or changes the cached table or step list.
C4_HitNeverFetches ==
    [][/\ \A t \in Threads : pc[t] = "return" => local[t].fetched = 1
       /\ Populated =>
             /\ fetches' = fetches
             /\ decipher_cache' = decipher_cache]_vars

\* a second call, with another signature, got the table from the cache
\* after the only fetch of the run
C4_Witness ==
    \E t, u \in Threads :
        /\ Populated
        /\ fetches = 1
        /\ started = 2
        /\ pc[u] = "done" /\ used[u].how = "built"
        /\ pc[t] = "done" /\ used[t].how = "hit"
        /\ s_cipher[t] # s_cipher[u]

\* C5: in a sequential run a get_decipher_logic call that fails (fetch
\* failed, no helper object, no main function) leaves the cache as it was,
\* empty, and returns None, decipher_signature then returns None, and the
\* call of the next request fetches again and goes on to extraction.
C5_FailureLeavesNoEntry ==
    [][\A t \in Threads :
          /\ (used'[t].how \in Failures /\ used[t].how \notin Failures) =>
                /\ decipher_cache' = decipher_cache
                /\ decipher_cache = EmptyDict
                /\ local'[t].logic = NoneValue
                /\ pc'[t] = "test"
          /\ (pc[t] = "test" /\ used[t].how \in Failures /\ pc'[t] # "test")
                => (pc'[t] = "done" /\ result'[t] = ReturnNone)
          /\ (last_logic \in Failures /\ pc[t] = "check" /\ pc'[t] # "check")
                => pc'[t] = "fetch"
          /\ (last_logic \in Failures /\ pc[t] = "fetch" /\ pc'[t] # "fetch")
                => /\ fetches' = fetches + 1
                   /\ pc'[t] = "parse" \/ used'[t].how = "SourceUnavailable"
      ]_vars

\* after a failed first request (None returned, nothing cached) the second
\* request has fetched again and is extracting
C5_Witness ==
    \E t, u \in Threads :
        /\ pc[u] = "done" /\ used[u].how \in Failures
        /\ result[u] = ReturnNone
        /\ decipher_cache = EmptyDict
        /\ pc[t] = "parse"
        /\ fetches = 2

\* C10: two finished calls that read the same cached table and step list
\* and were given the same signature hold the same result, and no step of
\* a replay (reading the cache, the loop, the join) changes the cache.
C10_ReplayDeterministic ==
    [][/\ \A t, u \in Threads :
             (/\ pc[t] = "done" /\ pc[u] = "done"
              /\ used[t].loaded /\ used[u].loaded
              /\ s_cipher[t] = s_cipher[u]
              /\ used[t].funcs = used[u].funcs
              /\ used[t].ops = used[u].ops)
                => result[t] = result[u]
       /\ \A t \in Threads :
             (/\ pc[t] \in {"test", "load_funcs", "load_ops", "replay"}
              /\ <<pc[t], local[t]>> # <<pc'[t], local'[t]>>)
                => decipher_cache' = decipher_cache]_vars

\* two calls have replayed the same program on "4321", one after the other
\* had finished
C10_Witness ==
    \E t, u \in Threads :
        /\ t # u
        /\ pc[t] = "done" /\ pc[u] = "done"
        /\ used[t].loaded /\ used[u].loaded
        /\ used[t].how = "built" /\ used[u].how = "hit"
        /\ s_cipher[t] = "4321" /\ s_cipher[u] = "4321"
        /\ used[t].funcs = used[u].funcs /\ used[t].ops = used[u].ops
        /\ result[t] = ReturnStr("234")

\* C1: every finished decipher_signature call that got a cached program
\* (by a hit or by building it) returned a string; it neither raised nor
\* returned None.
C1_ReplayReturnsString ==
    \A t \in Threads :
        (pc[t] = "done" /\ used[t].how \in GotLogic) => result[t].kind = "str"

\* the sequential result of decipher_signature(s, url of script d) on an
\* empty cache when the fetch succeeds
RECURSIVE ReplayAll(_, _, _)
ReplayAll(decipher_funcs, operations, signature_array) ==
    IF operations = <<>> THEN ReturnStr(Join(signature_array))
    ELSE LET r == ReplayOp(decipher_funcs, Head(operations), signature_array)
         IN  IF r.exc # "none" THEN Raise(r.exc)
             ELSE ReplayAll(decipher_funcs, Tail(operations), r.arr)

SequentialResult(d, s) ==
    LET js_code == ScriptText(d)
        helper == helper_obj_match(js_code)
        main == main_func_match(js_code)
    IN  IF ~helper.found \/ ~main.found THEN ReturnNone
        ELSE LET decipher_funcs == Classify(helper.group1, helper.group2)
                 operations == StripNonEmpty(SplitOperations(main.group1))
             IN  IF DOMAIN decipher_funcs = {} THEN ReturnNone
                 ELSE ReplayAll(decipher_funcs, operations, ListOf(s))

\* every URL serves the same script
SameScript == \A u, v \in URLs : scripts[u] = scripts[v]

\* C2: when all requests are for the same script, every finished request,
\* under every interleaving, has raised nothing, and one that got the
\* program holds the result of a sequential run on its signature.
C2_ConcurrentFirstExtraction ==
    \A t \in Threads :
        (pc[t] = "done" /\ SameScript) =>
            /\ result[t].kind \in {"str", "None"}
            /\ used[t].how \in GotLogic =>
                  result[t] = SequentialResult(scripts[js_url[t]], s_cipher[t])

\* text without any whitespace character
StripWs(text) == SelectSeq(text, LAMBDA tok : tok \notin Whitespace)

\* the kind whose reference body the body is, whitespace aside
ReferenceKind(body) ==
    IF StripWs(body) = StripWs(BodyDrop) THEN "func_splice"
    ELSE IF StripWs(body) = StripWs(BodyReverse) THEN "func_reverse"
    ELSE IF StripWs(body) = StripWs(BodySwap) THEN "func_swap"
    ELSE "none"

\* the parameter list of the helper function written with a reference body
ReferenceParams(kind) == IF kind = "func_reverse" THEN ParamsA ELSE ParamsAB

\* C3: in the operation table built by an extraction, every helper member
\* whose body is a reference body with whitespace inserted (the first such
\* member of its kind, declared with the parameters of the reference
\* function) is mapped to the function of that kind, and every member with
\* another body is not in the table.
C3_ClassifierRoundTrip ==
    \A t \in Threads :
        pc[t] = "store_funcs" =>
            LET d == scripts[js_url[t]]
                table == local[t].decipher_funcs
                kind(i) == ReferenceKind(d.members[i].body)
            IN  \A i \in 1..Len(d.members) :
                    LET q == QualifiedName(d.helperName, d.members[i].name)
                    IN  /\ kind(i) = "none" => q \notin DOMAIN table
                        /\ (/\ kind(i) # "none"
                            /\ d.members[i].params = ReferenceParams(kind(i))
                            /\ \A j \in 1..(i - 1) : kind(j) # kind(i))
                              => (q \in DOMAIN table /\ table[q] = kind(i))

\* the canonical transformations, as the data model defines them
Drop(arr, n) == SubSeq(arr, MinOf(n, Len(arr)) + 1, Len(arr))
Reverse(arr) == [i \in 1..Len(arr) |-> arr[Len(arr) + 1 - i]]
SwapWithModulo(arr, n) ==
    IF arr = <<>> THEN arr
    ELSE LET k == (n % Len(arr)) + 1
         IN  [i \in 1..Len(arr) |->
                 IF i = 1 THEN arr[k] ELSE IF i = k THEN arr[1] ELSE arr[i]]

\* qualified name and parameter of a step host.member(a, n)
StepName(op) == op[1] \o op[2] \o op[3]
StepParam(op) == IntOf(op[Len(op) - 1])

\* the steps applied left to right, those not in the table skipped
RECURSIVE CanonicalReplay(_, _, _)
CanonicalReplay(table, steps, arr) ==
    IF steps = <<>> THEN arr
    ELSE LET op == Head(steps)
             next ==
                 IF StepName(op) \notin DOMAIN table THEN arr
                 ELSE IF table[StepName(op)] = "func_splice"
                 THEN Drop(arr, StepParam(op))
                 ELSE IF table[StepName(op)] = "func_reverse"
                 THEN Reverse(arr)
                 ELSE SwapWithModulo(arr, StepParam(op))
         IN  CanonicalReplay(table, Tail(steps), next)

\* C6: the string returned by a finished decipher_signature call is the
\* one obtained from its signature by applying, in the order of the cached
\* step list, the canonical transformation of every step whose qualified
\* name is in the cached operation table and skipping the other steps; so
\* "4321" through [Reverse, Drop(1)] is returned as "234".
C6_ReplayInOrderSkipsUnresolved ==
    \A t \in Threads :
        (pc[t] = "done" /\ result[t].kind = "str") =>
            /\ Populated
            /\ result[t].val =
                   Join(CanonicalReplay(decipher_cache["decipher_funcs"],
                                        decipher_cache["operations"],
                                        ListOf(s_cipher[t])))
            /\ (/\ s_cipher[t] = "4321"
                /\ scripts[js_url[t]] = ScriptReverseDrop)
                  => result[t].val = "234"

\* "4321" has been replayed through a step that is skipped (its host is not
\* the helper object) and a resolved reverse
C6_Witness ==
    \E t \in Threads :
        /\ pc[t] = "done"
        /\ s_cipher[t] = "4321"
        /\ scripts[js_url[t]].calls =
               <<Call("Zq", "m1", <<"1">>, <<>>),
                 Call("Xy", "m2", <<"1">>, <<>>)>>
        /\ result[t] = ReturnStr("1234")

\* the text of a call statement, without its ";"
StatementText(c) == Strip(SubSeq(CallText(c), 1, Len(CallText(c)) - 1))

\* C7: for a script with a helper object and a main function with a
\* non-empty list of calls host.member(a) or host.member(a, integer),
\* extraction does not fail, and the step list it stores has one step per
\* call statement, in the same order.
C7_StepPerCallStatement ==
    \A t \in Threads :
        LET d == scripts[js_url[t]]
        IN  (d.hasHelper /\ d.hasMain /\ d.calls # <<>>) =>
                /\ used[t].how \notin {"NoHelperObject", "NoMainFunction"}
                /\ pc[t] = "return" =>
                      LET ops == decipher_cache["operations"]
                      IN  /\ Len(ops) = Len(d.calls)
                          /\ \A i \in 1..Len(ops) :
                                ops[i] = StatementText(d.calls[i])

\* ------------------------------------------------------------------------
\* Failure reporting
\* ------------------------------------------------------------------------

\* how a finished call ended: one of the three failures, or success
Outcome(t) == IF used[t].how \in GotLogic THEN "Success" ELSE used[t].how

Ended(t) == pc[t] = "done" /\ used[t].how \in Failures \cup GotLogic

ExtractedTable(d) ==
    LET helper == helper_obj_match(ScriptText(d))
    IN  Classify(helper.group1, helper.group2)

ExtractedSteps(d) ==
    StripNonEmpty(SplitOperations(main_func_match(ScriptText(d)).group1))

\* C12: in a sequential run, once a call for URL u has built the cache entry,
\* a later call for any URL (the same or another one) makes no fetch, reads
\* the table and step list extracted from the script of u, and returns what
\* replaying that program on its signature gives.
C12_CacheNotKeyedByUrl ==
    \A t, u \in Threads :
        (pc[u] = "done" /\ used[u].how = "built" /\ used[t].how = "hit") =>
            LET d == scripts[js_url[u]]
            IN  /\ local[t].fetched = 0
                /\ used[t].logic = Some(ExtractedTable(d))
                /\ used[t].loaded =>
                      /\ used[t].funcs = ExtractedTable(d)
                      /\ used[t].ops = ExtractedSteps(d)
                /\ pc[t] = "done" =>
                      result[t] = SequentialResult(d, s_cipher[t])

\* a call for one URL has returned the replay of the program of the other
\* URL, which differs from what its own script gives
C12_Witness ==
    \E t, u \in Threads :
        /\ pc[u] = "done" /\ used[u].how = "built"
        /\ pc[t] = "done" /\ used[t].how = "hit"
        /\ js_url[t] # js_url[u]
        /\ result[t].kind = "str"
        /\ result[t] = SequentialResult(scripts[js_url[u]], s_cipher[t])
        /\ result[t] # SequentialResult(scripts[js_url[t]], s_cipher[t])
        /\ fetches = 1

\* ------------------------------------------------------------------------
\* Completeness of the operation table
\* ------------------------------------------------------------------------

\* the table the classifier builds for a helper object holding member m alone
TableOfMember(d, m) == Classify(d.helperName, MemberText(m))

\* C13: in the operation table built by an extraction, every helper member
\* that the classifier recognizes when it stands alone has an entry of the
\* same kind under its qualified name, also when another member of the same
\* kind stands before it, and a member it does not recognize has no entry.
C13_TableComplete ==
    \A t \in Threads :
        pc[t] = "store_funcs" =>
            LET d == scripts[js_url[t]]
                table == local[t].decipher_funcs
            IN  \A i \in 1..Len(d.members) :
                    LET q == QualifiedName(d.helperName, d.members[i].name)
                        alone == TableOfMember(d, d.members[i])
                    IN  IF q \in DOMAIN alone
                        THEN q \in DOMAIN table /\ table[q] = alone[q]
                        ELSE q \notin DOMAIN table

\* ------------------------------------------------------------------------
\* Calls without an integer literal
\* ------------------------------------------------------------------------

\* the parameter of a call statement, 0 when it carries no integer literal
CallParam(c) == IF c.arg = <<>> THEN 0 ELSE IntOf(c.arg[Len(c.arg)])

\* the call statements applied left to right with their parameters, those
\* whose qualified name is not in the table skipped
RECURSIVE ReplayCalls(_, _, _)
ReplayCalls(table, calls, arr) ==
    IF calls = <<>> THEN arr
    ELSE LET c == Head(calls)
             q == QualifiedName(c.host, c.member)
             next ==
                 IF q \notin DOMAIN table THEN arr
                 ELSE IF table[q] = "func_splice" THEN Drop(arr, CallParam(c))
                 ELSE IF table[q] = "func_reverse" THEN Reverse(arr)
                 ELSE SwapWithModulo(arr, CallParam(c))
         IN  ReplayCalls(table, Tail(calls), next)

\* a call host.member(a) without integer literal, its member in the table
HasBareCall(d) ==
    \E i \in 1..Len(d.calls) :
        /\ d.calls[i].arg = <<>>
        /\ QualifiedName(d.calls[i].host, d.calls[i].member)
               \in DOMAIN ExtractedTable(d)

\* C14: when the main function of the fetched script contains a call
\* host.member(a) without integer literal whose member is in the operation
\* table, the call returns the string obtained by applying every call in
\* order, that one with parameter 0 at its position.
C14_BareCallIsStepZero ==
    \A t \in Threads :
        LET d == scripts[js_url[t]]
        IN  (/\ pc[t] = "done"
             /\ used[t].how \in {"built", "NoHelperObject", "NoMainFunction"}
             /\ d.hasHelper /\ d.hasMain
             /\ HasBareCall(d))
                => result[t] =
                       ReturnStr(Join(ReplayCalls(ExtractedTable(d), d.calls,
                                                  ListOf(s_cipher[t]))))

\* ------------------------------------------------------------------------
\* Length of the cipher state
\* ------------------------------------------------------------------------

\* the function a step of the replay resolves to, "skip" when it has none
StepKind(decipher_funcs, op) ==
    IF func_call(op).found /\ func_call(op).group1 \in DOMAIN decipher_funcs
    THEN decipher_funcs[func_call(op).group1]
    ELSE "skip"

\* C15: every step of the replay leaves the length of the cipher state
\* unchanged when it is a reverse, a swap or a skipped step, and lowers it by
\* exactly min(n, current length) when it is a drop with parameter n; the
\* string returned is never longer than the signature given. The swap
\* function, which no extracted table holds, keeps the length of the
\* signature of the call for every parameter.
C15_LengthMonotone ==
    [][\A t \in Threads :
          /\ (pc[t] = "replay" /\ local'[t].i = local[t].i + 1) =>
                LET op == local[t].ops[local[t].i]
                    kind == StepKind(local[t].funcs, op)
                    before == Len(local[t].signature_array)
                    after == Len(local'[t].signature_array)
                IN  /\ after <= before
                    /\ kind \in {"skip", "func_reverse", "func_swap"}
                          => after = before
                    /\ kind = "func_splice"
                          => after = before
                                - MinOf(IntOf(func_call(op).group2), before)
          /\ (pc[t] = "replay" /\ result'[t].kind = "str")
                => Len(result'[t].val) <= Len(s_cipher[t])
          /\ \A n \in 0..MaxParam :
                LET arr == ListOf(s_cipher[t])
                    swapped == func_swap(arr, n)
                IN  swapped.exc = "none" => Len(swapped.arr) = Len(arr)
      ]_vars

\* a drop with a parameter greater than the length left has emptied a
\* signature, after an earlier step that kept its length
C15_Witness ==
    \E t \in Threads :
        /\ pc[t] = "done"
        /\ Len(s_cipher[t]) = MaxLen
        /\ scripts[js_url[t]].calls =
               <<Call("Xy", "m2", <<"1">>, <<>>),
                 Call("Xy", "m1", <<DecimalDigits[MaxParam + 1]>>, <<>>)>>
        /\ result[t] = ReturnStr("")

\* ------------------------------------------------------------------------
\* Consistency of the cache entry
\* ------------------------------------------------------------------------

\* C16: in every state of every interleaving of concurrent requests, the
\* cache holds an operation table exactly when it holds a step list, and
\* the two are the table and the step list of one and the same script.
C16_CacheEntryConsistent ==
    /\ "decipher_funcs" \in DOMAIN decipher_cache
          <=> "operations" \in DOMAIN decipher_cache
    /\ Populated =>
          \E u \in URLs :
              /\ decipher_cache["decipher_funcs"] = ExtractedTable(scripts[u])
              /\ decipher_cache["operations"] = ExtractedSteps(scripts[u])


\* ------------------------------------------------------------------------
\* The empty operation table
\* ------------------------------------------------------------------------

\* the cache holds an empty operation table and a step list
EmptyTableCached ==
    Populated /\ DOMAIN decipher_cache["decipher_funcs"] = {}

\* C17: in a sequential run, an extraction that classifies no helper member
\* stores the empty table and the step list; the call that stored them and
\* every later call return None, and no step taken while they are stored
\* fetches or changes the cache.
C17_EmptyTableFailsForever ==
    [][/\ \A t \in Threads :
             (/\ pc[t] = "store_ops" /\ pc'[t] = "return"
              /\ DOMAIN local[t].decipher_funcs = {})
                 => /\ EmptyTableCached'
                    /\ decipher_cache'["operations"] =
                           ExtractedSteps(scripts[js_url[t]])
       /\ EmptyTableCached =>
             /\ fetches' = fetches
             /\ decipher_cache' = decipher_cache
             /\ \A t \in Threads :
                   pc'[t] = "done" /\ used'[t].how \in GotLogic
                      => result'[t] = ReturnNone
      ]_vars

\* the call that stored the empty table and a later call that hit it have
\* both returned None, after one fetch in all
C17_Witness ==
    \E t, u \in Threads :
        /\ EmptyTableCached
        /\ decipher_cache["operations"] # <<>>
        /\ pc[t] = "done" /\ used[t].how = "built" /\ result[t] = ReturnNone
        /\ pc[u] = "done" /\ used[u].how = "hit" /\ result[u] = ReturnNone
        /\ fetches = 1

\* ------------------------------------------------------------------------
\* The playable flag of a stream entry
\* ------------------------------------------------------------------------

\* a URL of the format or of its signatureCipher, possibly with parameters
\* appended
IsRealUrl(text) ==
    text # <<>> /\ Head(text) \in {"https://h/v", "https://h/c"}

\* C18: a stream entry put in the response with is_playable true has a
\* final_playable_url, and it is a URL, never the text "Deciphering Failed";
\* also for a format with a url containing "sig" and a signatureCipher
\* whose deciphering fails.
C18_PlayableFlagTruthful ==
    \A t \in Threads :
        (stream[t].stage = "appended" /\ stream[t].is_playable) =>
            /\ ~stream[t].final_playable_url.none
            /\ stream[t].final_playable_url.val # DecipheringFailed
            /\ IsRealUrl(stream[t].final_playable_url.val)
====
